---- MODULE Spec2Model ----
(***************************************************************************)
(* State-machine model of securedrop_client/logic.py: the APICallRunner    *)
(* call bridge and the Controller (session flag, API handle, registry of   *)
(* in-flight bridged calls, job submission and job outcome handlers).      *)
(*                                                                         *)
(* The Controller's home thread runs one handler at a time, so each        *)
(* handler is one action.  A bridged call runs on its own QThread: its     *)
(* execution (APICallRunner.call_api) is a separate action from the        *)
(* delivery of its queued signal (Controller.completed_api_call).          *)
(* The ApiJobQueue is a black box: a job that was enqueued may report      *)
(* success or failure at any later time.                                   *)
(***************************************************************************)
EXTENDS Integers, Sequences, FiniteSets, TLC

\* ------------------------------------------------------------- bounds
\* Bridged calls (login / logout) dispatched in one run.
MaxCalls == 2
\* Jobs enqueued whose outcome has not been delivered yet.
MaxQueue == 2
\* Consecutive integrity-mismatch failures of one item that are explored.
MaxRetry == 2
\* Replies the UI sends in one run.
MaxReplies == 1
\* Sources in the local store when the source list is displayed.
MaxSources == 3
\* Distinct last_updated times of the stored sources.
MaxTime == 2

\* ------------------------------------------------------------- values
\* self.api = None
None == 0

ApiIds == 1..MaxCalls

\* The downloadable items of the local store and the db class of each.
ItemKind == [M1 |-> "Message", R1 |-> "Reply", F1 |-> "File"]

Items == DOMAIN ItemKind

\* Reply uuids the UI may hand to send_reply.
ReplyName == <<"R1", "R2", "R3">>

ReplyIds == {ReplyName[i] : i \in 1..MaxReplies}

SourceUuid == "S1"

Job(t, u) == [type |-> t, uuid |-> u]

NoJob == Job("", "")

SyncJob == Job("MetadataSyncJob", "")

DownloadJobType == [Message |-> "MessageDownloadJob",
                    Reply |-> "ReplyDownloadJob",
                    File |-> "FileDownloadJob"]

DownloadJobs == {Job(DownloadJobType[ItemKind[i]], i) : i \in Items}

AllJobs == {SyncJob} \cup DownloadJobs
           \cup {Job("UpdateStarJob", SourceUuid), Job("DeleteSourceJob", SourceUuid)}
           \cup {Job("SendReplyJob", r) : r \in ReplyIds}

\* One observable effect of a handler: a signal emitted, a call on the gui,
\* the storage layer or the job queue.
Ev(name, a) == [ev |-> name, arg |-> a, job |-> NoJob]

Enqueue(j) == [ev |-> "api_job_queue.enqueue", arg |-> "", job |-> j]

BoolStr(b) == IF b THEN "True" ELSE "False"

\* gui.update_error_status(message) with the default duration and no retry
ErrorStatus(msg) == Ev("gui.update_error_status", msg)

\* gui.update_error_status(message, duration=0, retry=True)
ErrorStatusRetry(msg) == Ev("gui.update_error_status", msg \o ";duration=0;retry=True")

Unreachable == "The SecureDrop server cannot be reached."

MustSignIn == "You must sign in to perform this action."

DownloadFailed == "The file download failed. Please try again."

VARIABLES
    is_authenticated,   \* Controller.__is_authenticated
    api,                \* Controller.api: None or the id of an API object
    token,              \* the API objects whose token is not None
    api_threads,        \* keys of Controller.api_threads
    calls,              \* every bridged call: its runner and queued signals
    next_id,            \* the next fresh thread id / API object id
    queue_api,          \* the API object the job queue was handed
    jobs,               \* enqueued jobs whose outcome is not delivered yet
    drafts,             \* send status of each DraftReply row
    streak,             \* the integrity mismatches of one item delivered back to back
    out,                \* what the handler that just ran emitted, in order
    last,               \* the handler that just ran and what it was given
    local_sources,      \* what storage.get_local_sources returns
    shown_sources       \* the list gui.show_sources was given last

vars == <<is_authenticated, api, token, api_threads, calls, next_id, queue_api,
          jobs, drafts, streak, out, last, local_sources, shown_sources>>

\* The source list: the stored rows and what the display holds.
source_list == <<local_sources, shown_sources>>

NoCall == [kind |-> "", st |-> "none", signals |-> <<>>, queued |-> <<>>,
           result |-> "", callbacks |-> 0]

NoStreak == [item |-> "", failures |-> 0, resubmitted |-> 0]

\* The handler that ran, the job or call outcome it was given, and the
\* value the flag had when it started.
Last(op, j, err) == [op |-> op, job |-> j, err |-> err, auth |-> is_authenticated]

QueueLen(b) == LET RECURSIVE Sum(_)
                   Sum(S) == IF S = {} THEN 0
                             ELSE LET j == CHOOSE x \in S : TRUE
                                  IN b[j] + Sum(S \ {j})
               IN Sum(AllJobs)

\* api_job_queue.enqueue for every enqueue effect of a handler, in order
RECURSIVE AddAll(_, _)
AddAll(b, evs) ==
    IF evs = <<>> THEN b
    ELSE AddAll(IF Head(evs).ev = "api_job_queue.enqueue"
                THEN [b EXCEPT ![Head(evs).job] = @ + 1]
                ELSE b,
                Tail(evs))

Init ==
    /\ is_authenticated = FALSE
    /\ api = None
    /\ token = {}
    /\ api_threads = {}
    /\ calls = [i \in ApiIds |-> NoCall]
    /\ next_id = 1
    /\ queue_api = None
    /\ jobs = [j \in AllJobs |-> 0]
    /\ drafts = [r \in ReplyIds |-> "NONE"]
    /\ streak = NoStreak
    /\ out = <<>>
    /\ last = [op |-> "__init__", job |-> NoJob, err |-> "", auth |-> FALSE]
    /\ local_sources = <<>>
    /\ shown_sources = <<>>

\* ------------------------------------------------- helpers of the Controller

\* self.__is_authenticated = is_authenticated
assigned(v) == Ev("__is_authenticated.assign", BoolStr(v))

\* Mutant: the setter emits the signal on every assignment.
is_authenticated_setter_always(cur, v) ==
    <<Ev("authentication_state.emit", BoolStr(v)), assigned(v)>>

\* The is_authenticated setter: only on a change, the signal is emitted and
\* after it the new value is stored.
is_authenticated_setter(cur, v) ==
    IF cur # v THEN <<Ev("authentication_state.emit", BoolStr(v)), assigned(v)>> ELSE <<>>

\* Controller.authenticated(): bool(self.api and self.api.token is not None)
authenticated(a, tok) == a # None /\ a \in tok

\* storage.mark_all_pending_drafts_as_failed
mark_all_pending_drafts_as_failed(d) ==
    [r \in DOMAIN d |-> IF d[r] = "PENDING" THEN "FAILED" ELSE d[r]]

\* Controller.sync_api
sync_api(a, tok) ==
    IF authenticated(a, tok)
    THEN <<Ev("sync_events.emit", "syncing"), Enqueue(SyncJob)>>
    ELSE <<>>

\* Controller.update_sources followed by update_sync
update_sources == <<Ev("gui.show_sources", ""), Ev("gui.show_sync", "")>>

\* Controller.on_action_requiring_login
on_action_requiring_login == <<ErrorStatus(MustSignIn)>>

\* Controller.resume_queues
resume_queues == <<Ev("api_job_queue.resume_queues", "")>>

\* Controller._submit_download_job(object_type, uuid)
submit_download_job(object_type, uuid) ==
    <<Enqueue(Job(DownloadJobType[object_type], uuid))>>

\* Controller.call_api: a fresh id, a runner on a new thread, a registry entry
call_api(kind) ==
    /\ next_id <= MaxCalls
    /\ api_threads' = api_threads \cup {next_id}
    /\ calls' = [calls EXCEPT ![next_id] = [NoCall EXCEPT !.kind = kind, !.st = "running"]]
    /\ next_id' = next_id + 1


\* ------------------------------------------------------- session operations

\* Controller.login: sweep the drafts, build a new API object (it has no
\* token until its authenticate call returns) and dispatch authenticate.
\* The API object is identified by the id of its authenticate call.
login ==
    /\ call_api("authenticate")
    /\ drafts' = mark_all_pending_drafts_as_failed(drafts)
    /\ api' = next_id
    /\ out' = <<Ev("storage.mark_all_pending_drafts_as_failed", ""),
                Ev("call_api", "authenticate")>>
    /\ last' = Last("login", NoJob, "")
    /\ UNCHANGED source_list
    /\ streak' = NoStreak
    /\ UNCHANGED <<is_authenticated, token, queue_api, jobs>>

\* Mutant: offline mode is entered without the sweep of the pending drafts.
login_offline_mode_without_sweep ==
    /\ is_authenticated' = FALSE
    /\ out' = <<Ev("gui.hide_login", ""), Ev("gui.show_main_window", "")>>
               \o is_authenticated_setter(is_authenticated, FALSE)
               \o update_sources
    /\ last' = Last("login_offline_mode", NoJob, "")
    /\ UNCHANGED source_list
    /\ streak' = NoStreak
    /\ UNCHANGED <<api, token, api_threads, calls, next_id, queue_api, jobs, drafts>>

\* Controller.login_offline_mode
login_offline_mode ==
    /\ drafts' = mark_all_pending_drafts_as_failed(drafts)
    /\ is_authenticated' = FALSE
    /\ out' = <<Ev("gui.hide_login", ""), Ev("gui.show_main_window", ""),
                Ev("storage.mark_all_pending_drafts_as_failed", "")>>
               \o is_authenticated_setter(is_authenticated, FALSE)
               \o update_sources
    /\ last' = Last("login_offline_mode", NoJob, "")
    /\ UNCHANGED source_list
    /\ streak' = NoStreak
    /\ UNCHANGED <<api, token, api_threads, calls, next_id, queue_api, jobs>>

\* Mutant: logout without the sweep of the pending drafts.
logout_without_sweep ==
    /\ last' = Last("logout", NoJob, "")
    /\ UNCHANGED source_list
    /\ IF api = None
       THEN /\ out' = <<Ev("raise", "AttributeError")>>
            /\ streak' = NoStreak
            /\ UNCHANGED <<is_authenticated, api, token, api_threads, calls, next_id,
                           queue_api, jobs, drafts>>
       ELSE /\ call_api("logout")
            /\ api' = None
            /\ queue_api' = None
            /\ is_authenticated' = FALSE
            /\ out' = <<Ev("call_api", "logout"), Ev("api_job_queue.logout", ""),
                        Ev("gui.logout", "")>>
                       \o is_authenticated_setter(is_authenticated, FALSE)
            /\ streak' = NoStreak
            /\ UNCHANGED <<token, jobs, drafts>>

\* Controller.logout.  self.api.logout is evaluated first: with no API
\* object it raises AttributeError before anything else happens.
logout ==
    /\ last' = Last("logout", NoJob, "")
    /\ UNCHANGED source_list
    /\ IF api = None
       THEN /\ out' = <<Ev("raise", "AttributeError")>>
            /\ streak' = NoStreak
            /\ UNCHANGED <<is_authenticated, api, token, api_threads, calls, next_id,
                           queue_api, jobs, drafts>>
       ELSE /\ call_api("logout")
            /\ api' = None
            /\ queue_api' = None
            /\ drafts' = mark_all_pending_drafts_as_failed(drafts)
            /\ is_authenticated' = FALSE
            /\ out' = <<Ev("call_api", "logout"), Ev("api_job_queue.logout", ""),
                        Ev("storage.mark_all_pending_drafts_as_failed", ""),
                        Ev("gui.logout", "")>>
                       \o is_authenticated_setter(is_authenticated, FALSE)
            /\ streak' = NoStreak
            /\ UNCHANGED <<token, jobs>>

\* ------------------------------------------------------------ call bridge

\* Mutant: a timeout is reported as timed out only.
runner_signals_timeout_only(outcome) ==
    IF outcome = "ok" THEN <<"call_succeeded">>
    ELSE IF outcome = "timeout" THEN <<"call_timed_out">>
    ELSE <<"call_failed">>

\* APICallRunner.call_api: the signals the runner emits for an outcome of
\* the blocking call ("ok": it returned, "timeout": it raised
\* RequestTimeoutError, "error": it raised anything else).
runner_signals(outcome) ==
    IF outcome = "ok" THEN <<"call_succeeded">>
    ELSE (IF outcome = "timeout" THEN <<"call_timed_out">> ELSE <<>>)
         \o <<"call_failed">>

\* Controller.call_api connects call_succeeded and call_failed only.
connected(signals) == SelectSeq(signals, LAMBDA s : s \in {"call_succeeded", "call_failed"})

\* The runner on its worker thread.  A successful authenticate stores the
\* token in the API object it was called on.
APICallRunner_call_api(id, outcome) ==
    /\ calls[id].st = "running"
    /\ calls' = [calls EXCEPT ![id].st = "finished",
                              ![id].result = outcome,
                              ![id].signals = runner_signals(outcome),
                              ![id].queued = connected(runner_signals(outcome))]
    /\ token' = IF calls[id].kind = "authenticate" /\ outcome = "ok"
                THEN token \cup {id} ELSE token
    /\ out' = <<>>
    /\ last' = Last("APICallRunner.call_api", NoJob, outcome)
    /\ UNCHANGED source_list
    /\ streak' = NoStreak
    /\ UNCHANGED <<is_authenticated, api, api_threads, next_id, queue_api, jobs,
                   drafts>>

\* thread_info = self.api_threads.pop(thread_id)
popped == Ev("api_threads.pop", "")

\* Mutant: the continuation runs first, the registry entry is removed after
\* it has returned.
completed_api_call_effects_pop_last(callback_effects) == callback_effects \o <<popped>>

\* What a run of completed_api_call does, in order: it pops the registry
\* entry of the call, then calls the continuation (the continuations below
\* are run by completed_api_call only).
completed_api_call_effects(callback_effects) == <<popped>> \o callback_effects

\* The continuation call_api was given for a signal of a call.
user_callback(kind, signal) ==
    IF kind = "authenticate"
    THEN (IF signal = "call_succeeded" THEN "on_authenticate_success"
          ELSE "on_authenticate_failure")
    ELSE (IF signal = "call_succeeded" THEN "on_logout_success"
          ELSE "on_logout_failure")

\* Mutant: the flag is set before the sync is triggered.
on_authenticate_success_flag_first ==
    IF api = None
    THEN /\ out' = completed_api_call_effects(<<Ev("raise", "AttributeError")>>)
         /\ UNCHANGED <<is_authenticated, api, queue_api, jobs>>
    ELSE /\ out' = completed_api_call_effects(
                       <<Ev("gui.hide_login", ""), Ev("storage.update_and_get_user", ""),
                         Ev("gui.show_main_window", ""), Ev("api_job_queue.login", "")>>
                       \o is_authenticated_setter(is_authenticated, TRUE)
                       \o sync_api(api, token)
                       \o resume_queues)
         /\ queue_api' = api
         /\ jobs' = AddAll(jobs, sync_api(api, token))
         /\ is_authenticated' = TRUE
         /\ UNCHANGED api

\* Controller.on_authenticate_success.  self.api.username raises
\* AttributeError when the API object is gone.
on_authenticate_success ==
    IF api = None
    THEN /\ out' = completed_api_call_effects(<<Ev("raise", "AttributeError")>>)
         /\ UNCHANGED <<is_authenticated, api, queue_api, jobs>>
    ELSE /\ out' = completed_api_call_effects(
                       <<Ev("gui.hide_login", ""), Ev("storage.update_and_get_user", ""),
                         Ev("gui.show_main_window", ""), Ev("api_job_queue.login", "")>>
                       \o sync_api(api, token)
                       \o is_authenticated_setter(is_authenticated, TRUE)
                       \o resume_queues)
         /\ queue_api' = api
         /\ jobs' = AddAll(jobs, sync_api(api, token))
         /\ is_authenticated' = TRUE
         /\ UNCHANGED api

\* Mutant: a failed authenticate also resets the flag.
on_authenticate_failure_resets_flag ==
    /\ api' = None
    /\ is_authenticated' = FALSE
    /\ out' = completed_api_call_effects(
                  <<Ev("gui.show_login_error", "There was a problem signing in.")>>
                  \o is_authenticated_setter(is_authenticated, FALSE))
    /\ UNCHANGED <<queue_api, jobs>>

\* Controller.on_authenticate_failure
on_authenticate_failure ==
    /\ api' = None
    /\ out' = completed_api_call_effects(
                  <<Ev("gui.show_login_error", "There was a problem signing in.")>>)
    /\ UNCHANGED <<is_authenticated, queue_api, jobs>>

\* Controller.on_logout_success
on_logout_success ==
    /\ out' = completed_api_call_effects(<<Ev("gui.clear_error_status", "")>>)
    /\ UNCHANGED <<is_authenticated, api, queue_api, jobs>>

\* Controller.on_logout_failure
on_logout_failure ==
    /\ out' = completed_api_call_effects(<<>>)
    /\ UNCHANGED <<is_authenticated, api, queue_api, jobs>>

\* The bridged call a continuation is run for: api_call_func (authenticate
\* of the API object with this id, or logout) and the thread id.
api_call(kind, id) == Job(kind, ToString(id))

\* Mutant: the registry entry is read but not removed.
pop_keeps_entry(threads, id) == threads

\* api_threads.pop(thread_id)
pop(threads, id) == threads \ {id}

\* Controller.completed_api_call, run for a queued signal of runner id:
\* pop the registry entry (KeyError if it is gone), then run the callback.
\* With the entry go the thread and the runner: what is left of the call is
\* that it was delivered and how many continuations ran for it.
completed_api_call(id) ==
    LET signal == Head(calls[id].queued)
        cb == user_callback(calls[id].kind, signal)
    IN /\ calls[id].queued # <<>>
       /\ last' = Last(cb, api_call(calls[id].kind, id), calls[id].result)
       /\ UNCHANGED source_list
       /\ IF id \notin api_threads
          THEN /\ calls' = [calls EXCEPT ![id].queued = Tail(@)]
               /\ out' = <<Ev("raise", "KeyError")>>
               /\ UNCHANGED <<is_authenticated, api, api_threads, queue_api, jobs>>
          ELSE /\ api_threads' = pop(api_threads, id)
               /\ calls' = [calls EXCEPT ![id] = [NoCall EXCEPT
                                             !.st = "delivered",
                                             !.queued = Tail(calls[id].queued),
                                             !.callbacks = calls[id].callbacks + 1]]
               /\ CASE cb = "on_authenticate_success" -> on_authenticate_success
                    [] cb = "on_authenticate_failure" -> on_authenticate_failure
                    [] cb = "on_logout_success" -> on_logout_success
                    [] OTHER -> on_logout_failure
       /\ QueueLen(jobs') <= MaxQueue
       /\ streak' = NoStreak
       /\ UNCHANGED <<token, next_id, drafts>>


\* --------------------------------------------------- operations of the UI

\* The sync_update timer: Controller.sync_api
sync_update_timeout ==
    /\ out' = sync_api(api, token)
    /\ jobs' = AddAll(jobs, out')
    /\ QueueLen(jobs') <= MaxQueue
    /\ last' = Last("sync_api", NoJob, "")
    /\ UNCHANGED source_list
    /\ streak' = NoStreak
    /\ UNCHANGED <<is_authenticated, api, token, api_threads, calls, next_id,
                   queue_api, drafts>>

\* Controller.on_queue_paused
on_queue_paused ==
    /\ out' = IF api = None
              THEN <<ErrorStatus(Unreachable)>>
              ELSE <<ErrorStatusRetry(Unreachable)>>
    /\ last' = Last("on_queue_paused", NoJob, "")
    /\ UNCHANGED source_list
    /\ streak' = NoStreak
    /\ UNCHANGED <<is_authenticated, api, token, api_threads, calls, next_id,
                   queue_api, jobs, drafts>>

\* Controller.update_star: "if not self.api" decides, not the flag.  The
\* caller's callback is connected to the job's success signal beside
\* on_update_star_success; it belongs to the caller and is not modelled.
update_star ==
    /\ out' = IF api = None
              THEN on_action_requiring_login
              ELSE <<Enqueue(Job("UpdateStarJob", SourceUuid))>>
    /\ jobs' = AddAll(jobs, out')
    /\ QueueLen(jobs') <= MaxQueue
    /\ last' = Last("update_star", NoJob, "")
    /\ UNCHANGED source_list
    /\ streak' = NoStreak
    /\ UNCHANGED <<is_authenticated, api, token, api_threads, calls, next_id,
                   queue_api, drafts>>

\* Controller.delete_source
delete_source ==
    /\ out' = IF api = None
              THEN on_action_requiring_login
              ELSE <<Enqueue(Job("DeleteSourceJob", SourceUuid))>>
    /\ jobs' = AddAll(jobs, out')
    /\ QueueLen(jobs') <= MaxQueue
    /\ last' = Last("delete_source", NoJob, "")
    /\ UNCHANGED source_list
    /\ streak' = NoStreak
    /\ UNCHANGED <<is_authenticated, api, token, api_threads, calls, next_id,
                   queue_api, drafts>>

\* Controller.on_submission_download(submission_type, submission_uuid)
on_submission_download(uuid) ==
    /\ out' = IF api # None
              THEN submit_download_job(ItemKind[uuid], uuid)
                   \o <<Ev("gui.update_activity_status", "Downloading file")>>
              ELSE on_action_requiring_login
    /\ jobs' = AddAll(jobs, out')
    /\ QueueLen(jobs') <= MaxQueue
    /\ last' = Last("on_submission_download", Job(DownloadJobType[ItemKind[uuid]], uuid), "")
    /\ UNCHANGED source_list
    /\ streak' = NoStreak
    /\ UNCHANGED <<is_authenticated, api, token, api_threads, calls, next_id,
                   queue_api, drafts>>

\* self.api.token_journalist_uuid: the journalist the API object was
\* authenticated as; None as long as the object holds no token.
token_journalist_uuid(a, tok) ==
    IF a \in tok THEN "journalist-" \o ToString(a) ELSE "None"

\* source.interaction_count of the source replied to
interaction_count == "source.interaction_count"

\* session.add(db.DraftReply(...)); session.commit() with send status PENDING
DraftReply(reply_uuid, journalist_id, file_counter) ==
    Ev("session.commit", reply_uuid \o ";journalist_id=" \o journalist_id
                         \o ";file_counter=" \o file_counter \o ";send_status=PENDING")

\* Controller.send_reply with a reply uuid that has no draft yet.  Building
\* the DraftReply reads self.api.token_journalist_uuid, which raises
\* AttributeError when there is no API object: nothing is stored or enqueued.
send_reply(reply_uuid) ==
    /\ drafts[reply_uuid] = "NONE"
    /\ last' = Last("send_reply", Job("SendReplyJob", reply_uuid), "")
    /\ UNCHANGED source_list
    /\ IF api = None
       THEN /\ out' = <<Ev("raise", "AttributeError")>>
            /\ UNCHANGED <<jobs, drafts>>
       ELSE /\ drafts' = [drafts EXCEPT ![reply_uuid] = "PENDING"]
            /\ out' = <<DraftReply(reply_uuid, token_journalist_uuid(api, token),
                                   interaction_count),
                        Enqueue(Job("SendReplyJob", reply_uuid))>>
            /\ jobs' = AddAll(jobs, out')
    /\ QueueLen(jobs') <= MaxQueue
    /\ streak' = NoStreak
    /\ UNCHANGED <<is_authenticated, api, token, api_threads, calls, next_id,
                   queue_api>>


\* ------------------------------------------------------ job outcome handlers

\* storage.find_new_messages / find_new_replies: the stored items of a kind
\* that have no content yet, in a fixed order.
RECURSIVE find_new(_, _)
find_new(kind, miss) ==
    LET S == {i \in miss : ItemKind[i] = kind}
    IN IF S = {} THEN <<>>
       ELSE LET i == CHOOSE x \in S : TRUE
            IN <<i>> \o find_new(kind, miss \ {i})

\* The store answering find_new_messages / find_new_replies with a row.
found(kind, uuid) == Ev("storage.find_new_" \o kind, uuid)

RECURSIVE found_each(_, _)
found_each(kind, uuids) ==
    IF uuids = <<>> THEN <<>>
    ELSE <<found(kind, Head(uuids))>> \o found_each(kind, Tail(uuids))

\* for message in messages: self._submit_download_job(type(message), message.uuid)
RECURSIVE submit_each(_, _)
submit_each(kind, uuids) ==
    IF uuids = <<>> THEN <<>>
    ELSE submit_download_job(kind, Head(uuids)) \o submit_each(kind, Tail(uuids))

\* Controller.download_new_messages
download_new_messages(miss) ==
    LET messages == find_new("Message", miss)
    IN found_each("Message", messages)
       \o (IF Len(messages) > 0
           THEN <<Ev("gui.update_activity_status", "Downloading new messages")>>
           ELSE <<>>)
       \o submit_each("Message", messages)

\* Controller.download_new_replies
download_new_replies(miss) ==
    LET replies == find_new("Reply", miss)
    IN found_each("Reply", replies) \o submit_each("Reply", replies)

\* Mutant: the last-sync marker is written at the end of the handler.
on_sync_success_marker_last(miss) ==
    <<Ev("gui.clear_error_status", ""),
      Ev("storage.update_missing_files", "")>>
    \o update_sources
    \o download_new_messages(miss)
    \o download_new_replies(miss)
    \o <<Ev("sync_events.emit", "synced")>>
    \o resume_queues
    \o <<Ev("sync_flag.write", "")>>

\* Mutant: the sync success handler downloads new messages only.
on_sync_success_messages_only(miss) ==
    <<Ev("gui.clear_error_status", ""),
      Ev("sync_flag.write", ""),
      Ev("storage.update_missing_files", "")>>
    \o update_sources
    \o download_new_messages(miss)
    \o found_each("Reply", find_new("Reply", miss))
    \o <<Ev("sync_events.emit", "synced")>>
    \o resume_queues

\* Controller.on_sync_success
on_sync_success(miss) ==
    <<Ev("gui.clear_error_status", ""),
      Ev("sync_flag.write", ""),
      Ev("storage.update_missing_files", "")>>
    \o update_sources
    \o download_new_messages(miss)
    \o download_new_replies(miss)
    \o <<Ev("sync_events.emit", "synced")>>
    \o resume_queues

\* Controller.on_sync_failure
on_sync_failure == <<ErrorStatusRetry(Unreachable)>>

\* The exception a download job fails with: DownloadChecksumMismatchException
\* carries the object type and uuid of the job that raised it.
DownloadException(j, res) ==
    [checksum_mismatch |-> res = "checksum", object_type |-> ItemKind[j.uuid], uuid |-> j.uuid]

\* Controller.on_message_download_success
on_message_download_success(uuid) ==
    <<Ev("gui.clear_error_status", ""), Ev("message_ready.emit", uuid)>>

\* Controller.on_message_download_failure
on_message_download_failure(exception) ==
    IF exception.checksum_mismatch
    THEN submit_download_job(exception.object_type, exception.uuid)
    ELSE <<>>

\* Controller.on_reply_download_success
on_reply_download_success(uuid) ==
    <<Ev("gui.clear_error_status", ""), Ev("reply_ready.emit", uuid)>>

\* Mutant: the reply handler resubmits the item as a message.
on_reply_download_failure_as_message(exception) ==
    IF exception.checksum_mismatch
    THEN submit_download_job("Message", exception.uuid)
    ELSE <<>>

\* Controller.on_reply_download_failure
on_reply_download_failure(exception) ==
    IF exception.checksum_mismatch
    THEN submit_download_job(exception.object_type, exception.uuid)
    ELSE <<>>

\* Controller.on_file_download_success
on_file_download_success(uuid) ==
    <<Ev("gui.clear_error_status", ""), Ev("file_ready.emit", uuid)>>

\* Mutant: the error is surfaced on every failure, resubmitted or not.
on_file_download_failure_always_error(exception) ==
    (IF exception.checksum_mismatch
     THEN submit_download_job(exception.object_type, exception.uuid)
     ELSE <<>>)
    \o <<ErrorStatus(DownloadFailed)>>

\* Controller.on_file_download_failure
on_file_download_failure(exception) ==
    IF exception.checksum_mismatch
    THEN submit_download_job(exception.object_type, exception.uuid)
    ELSE <<ErrorStatus(DownloadFailed)>>

\* Controller.on_update_star_success
on_update_star_success == <<Ev("gui.clear_error_status", "")>>

\* Controller.on_update_star_failure
on_update_star_failure == <<ErrorStatus("Failed to update star.")>>

\* Controller.on_delete_source_success
on_delete_source_success(uuid) ==
    <<Ev("storage.delete_local_source_by_uuid", uuid), Ev("gui.clear_error_status", "")>>
    \o update_sources

\* Controller.on_delete_source_failure
on_delete_source_failure == <<ErrorStatus("Failed to delete source at server")>>

\* Mutant: the reply success handler does not trigger a sync.
on_reply_success_no_sync(reply_uuid, a, tok) ==
    <<Ev("gui.clear_error_status", ""), Ev("reply_succeeded.emit", reply_uuid)>>

\* Controller.on_reply_success
on_reply_success(reply_uuid, a, tok) ==
    <<Ev("gui.clear_error_status", ""), Ev("reply_succeeded.emit", reply_uuid)>>
    \o sync_api(a, tok)

\* Mutant: a failed reply is submitted again.
on_reply_failure_resubmits(reply_uuid) ==
    <<Ev("reply_failed.emit", reply_uuid), Enqueue(Job("SendReplyJob", reply_uuid))>>

\* Controller.on_reply_failure
on_reply_failure(reply_uuid) == <<Ev("reply_failed.emit", reply_uuid)>>

\* The ways a job of each type reports failure.
Failures(j) ==
    IF j \in DownloadJobs THEN {"checksum", "error"}
    ELSE IF j.type = "SendReplyJob" THEN {"error", "timeout"}
    ELSE {"error"}

\* The slot connected to the job's success_signal / failure_signal.
job_handler(j, res) ==
    LET stem == CASE j.type = "MetadataSyncJob" -> "on_sync"
                  [] j.type = "MessageDownloadJob" -> "on_message_download"
                  [] j.type = "ReplyDownloadJob" -> "on_reply_download"
                  [] j.type = "FileDownloadJob" -> "on_file_download"
                  [] j.type = "UpdateStarJob" -> "on_update_star"
                  [] j.type = "DeleteSourceJob" -> "on_delete_source"
                  [] OTHER -> "on_reply"
    IN stem \o (IF res = "success" THEN "_success" ELSE "_failure")

\* What the connected slot does for outcome res of job j.
run_handler(j, res, miss) ==
    LET h == job_handler(j, res)
    IN CASE h = "on_sync_success" -> on_sync_success(miss)
         [] h = "on_sync_failure" -> on_sync_failure
         [] h = "on_message_download_success" -> on_message_download_success(j.uuid)
         [] h = "on_message_download_failure" ->
                on_message_download_failure(DownloadException(j, res))
         [] h = "on_reply_download_success" -> on_reply_download_success(j.uuid)
         [] h = "on_reply_download_failure" ->
                on_reply_download_failure(DownloadException(j, res))
         [] h = "on_file_download_success" -> on_file_download_success(j.uuid)
         [] h = "on_file_download_failure" ->
                on_file_download_failure(DownloadException(j, res))
         [] h = "on_update_star_success" -> on_update_star_success
         [] h = "on_update_star_failure" -> on_update_star_failure
         [] h = "on_delete_source_success" -> on_delete_source_success(j.uuid)
         [] h = "on_delete_source_failure" -> on_delete_source_failure
         [] h = "on_reply_success" -> on_reply_success(j.uuid, api, token)
         [] OTHER -> on_reply_failure(j.uuid)

\* A SendReply job that succeeded has reconciled its draft to SENT.
reply_sent(d, reply_uuid) == [d EXCEPT ![reply_uuid] = "SENT"]

\* A SendReply job that failed leaves the status of its draft as it was.
reply_not_sent(d, reply_uuid) == d

\* How many times a handler enqueued job j.
Enqueued(evs, j) == Len(SelectSeq(evs, LAMBDA e : e = Enqueue(j)))

\* A job the queue holds reports its outcome and the connected slot runs.
\* miss is what the local store reports as lacking content when
\* on_sync_success asks it (the store is filled by the jobs, outside the
\* Controller).  A reply the server accepted is no longer a pending draft.
job_outcome(j, res, miss) ==
    LET base == IF streak.item = j.uuid THEN streak ELSE NoStreak
    IN /\ jobs[j] > 0
       /\ (j = SyncJob /\ res = "success") \/ miss = {}
       /\ res = "checksum" => base.failures < MaxRetry
       /\ out' = run_handler(j, res, miss)
       /\ jobs' = AddAll([jobs EXCEPT ![j] = @ - 1], out')
       /\ QueueLen(jobs') <= MaxQueue
       /\ drafts' = IF j.type # "SendReplyJob" THEN drafts
                    ELSE IF res = "success" THEN reply_sent(drafts, j.uuid)
                    ELSE reply_not_sent(drafts, j.uuid)
       /\ streak' = IF res = "checksum"
                    THEN [item |-> j.uuid,
                          failures |-> base.failures + 1,
                          resubmitted |-> base.resubmitted + Enqueued(out', j)]
                    ELSE NoStreak
       /\ last' = Last(job_handler(j, res), j, res)
       /\ UNCHANGED source_list
       /\ UNCHANGED <<is_authenticated, api, token, api_threads, calls, next_id,
                      queue_api>>

\* ------------------------------------------------------------ specification

Next ==
    \/ login
    \/ login_offline_mode
    \/ logout
    \/ \E id \in ApiIds, outcome \in {"ok", "error", "timeout"} :
          APICallRunner_call_api(id, outcome)
    \/ \E id \in ApiIds : completed_api_call(id)
    \/ sync_update_timeout
    \/ on_queue_paused
    \/ update_star
    \/ delete_source
    \/ \E uuid \in Items : on_submission_download(uuid)
    \/ \E r \in ReplyIds : send_reply(r)
    \/ \E j \in AllJobs, res \in {"success", "checksum", "error", "timeout"},
          miss \in SUBSET Items :
          res \in {"success"} \cup Failures(j) /\ job_outcome(j, res, miss)

Spec == Init /\ [][Next]_vars

\* ----------------------------------------------------------- source list

\* A row of the sources table: its uuid and its last_updated time.
Source(u, t) == [uuid |-> u, last_updated |-> t]

SourceUuids == 1..MaxSources

Times == 1..MaxTime

\* What storage.get_local_sources may return: rows with distinct uuids.
StoredLists ==
    {l \in UNION {[1..n -> {Source(u, t) : u \in SourceUuids, t \in Times}] : n \in 0..MaxSources} :
        \A i, k \in 1..Len(l) : i # k => l[i].uuid # l[k].uuid}

\* Mutant: sort ascending, keeping the order of equal keys, then reverse the list.
RECURSIVE sort_reverse_by_reversing(_)
sort_reverse_by_reversing(l) ==
    IF l = <<>> THEN <<>>
    ELSE LET x == l[Len(l)]
             rest == sort_reverse_by_reversing(SubSeq(l, 1, Len(l) - 1))
             n == Cardinality({i \in 1..Len(rest) : rest[i].last_updated > x.last_updated})
         IN SubSeq(rest, 1, n) \o <<x>> \o SubSeq(rest, n + 1, Len(rest))

\* sources.sort(key=lambda x: x.last_updated, reverse=True): list.sort is
\* stable, and with reverse=True rows with equal keys still keep the order
\* they had.  Computed by insertion: each row, in list order, goes behind
\* every row already placed whose key is greater or equal.
RECURSIVE sort_reverse(_)
sort_reverse(l) ==
    IF l = <<>> THEN <<>>
    ELSE LET x == l[Len(l)]
             rest == sort_reverse(SubSeq(l, 1, Len(l) - 1))
             n == Cardinality({i \in 1..Len(rest) : rest[i].last_updated >= x.last_updated})
         IN SubSeq(rest, 1, n) \o <<x>> \o SubSeq(rest, n + 1, Len(rest))

\* The local store holds some list of sources; the Controller is as
\* constructed.
SourcesInit ==
    /\ is_authenticated = FALSE
    /\ api = None
    /\ token = {}
    /\ api_threads = {}
    /\ calls = [i \in ApiIds |-> NoCall]
    /\ next_id = 1
    /\ queue_api = None
    /\ jobs = [j \in AllJobs |-> 0]
    /\ drafts = [r \in ReplyIds |-> "NONE"]
    /\ streak = NoStreak
    /\ out = <<>>
    /\ last = [op |-> "__init__", job |-> NoJob, err |-> "", auth |-> FALSE]
    /\ local_sources \in StoredLists
    /\ shown_sources = <<>>

\* Controller.update_sources with the list it hands to gui.show_sources.
show_sources ==
    /\ last.op = "__init__"
    /\ shown_sources' = IF local_sources # <<>> THEN sort_reverse(local_sources)
                        ELSE local_sources
    /\ out' = update_sources
    /\ last' = Last("update_sources", NoJob, "")
    /\ UNCHANGED <<is_authenticated, api, token, api_threads, calls, next_id, queue_api,
                   jobs, drafts, streak, local_sources>>

SourcesNext == show_sources

SourcesSpec == SourcesInit /\ [][SourcesNext]_vars


\* ------------------------------------------------------------------ claims

\* Where an effect occurs in what a handler emitted.
Pos(evs, e) == {i \in 1..Len(evs) : evs[i] = e}

Count(evs, e) == Cardinality(Pos(evs, e))

\* Every occurrence of a precedes every occurrence of b.
Before(evs, a, b) == \A i \in Pos(evs, a), k \in Pos(evs, b) : i < k

Raised == \E i \in 1..Len(out) : out[i].ev = "raise"

AuthEvents == SelectSeq(out, LAMBDA e : e.ev = "authentication_state.emit")

Enqueues == SelectSeq(out, LAMBDA e : e.ev = "api_job_queue.enqueue")

AuthChanged(v) == Ev("authentication_state.emit", BoolStr(v))

Synced == Ev("sync_events.emit", "synced")

Resume == Ev("api_job_queue.resume_queues", "")

\* C1: in every reachable state the authenticated flag is true if and only
\* if the API handle is non-null and holds a token.
C1_FlagIffHandleWithToken == is_authenticated <=> authenticated(api, token)

\* C2: a handler emits authentication-state-changed exactly once, carrying
\* the new value, when its assignment changes the flag, and does not emit it
\* when the flag is assigned the value it already has or is not assigned.
C2_SignalOncePerFlip ==
    AuthEvents = IF is_authenticated # last.auth
                 THEN <<AuthChanged(is_authenticated)>>
                 ELSE <<>>

\* A logout that flips the flag back after an earlier login flipped it.
C2_Witness ==
    /\ last.op = "logout"
    /\ last.auth
    /\ ~is_authenticated
    /\ AuthEvents = <<AuthChanged(FALSE)>>

\* C3: when login() or logout() has returned, no DraftReply is PENDING and
\* every draft that was PENDING before the call is FAILED, including drafts
\* whose SendReply job is still in flight.
C3_NoPendingAfterLoginLogout ==
    [][(last'.op \in {"login", "logout"} /\ ~Raised')
          => \A r \in ReplyIds :
                /\ drafts'[r] # "PENDING"
                /\ drafts[r] = "PENDING" => drafts'[r] = "FAILED"]_vars

\* login or logout has swept a draft whose SendReply job is still in flight.
C3_Witness ==
    /\ last.op \in {"login", "logout"}
    /\ ~Raised
    /\ \E r \in ReplyIds : drafts[r] = "FAILED" /\ jobs[Job("SendReplyJob", r)] > 0

\* C4: the registry holds exactly the dispatched calls whose outcome has not
\* been delivered, each under an id no other call has; an entry is never
\* popped twice; a delivered call has run exactly one continuation and an
\* undelivered one none.
C4_RegistryExactlyUndelivered ==
    /\ api_threads = {id \in ApiIds : calls[id].st \in {"running", "finished"}}
    /\ \A id \in ApiIds :
          /\ calls[id].st = "none" <=> id >= next_id
          /\ calls[id].callbacks = IF calls[id].st = "delivered" THEN 1 ELSE 0
          /\ calls[id].st = "delivered" => calls[id].queued = <<>>
          /\ Len(calls[id].queued) <= 1
    /\ Count(out, Ev("raise", "KeyError")) = 0

\* One call delivered and gone from the registry while another is in it.
C4_Witness ==
    \E a, b \in ApiIds :
        /\ calls[a].st = "delivered" /\ calls[a].callbacks = 1 /\ a \notin api_threads
        /\ calls[b].st = "finished" /\ b \in api_threads

\* C5: the MetadataSync failure handler surfaces the persistent retryable
\* 'server unreachable' error and resumes the Job Queue.
C5_SyncFailureResumesQueue ==
    last.op = "on_sync_failure"
        => /\ Count(out, ErrorStatusRetry(Unreachable)) = 1
           /\ Count(out, Resume) = 1

\* C6: after N integrity-mismatch failures of one item delivered one after
\* the other, exactly N download jobs were enqueued by the failure handlers,
\* one per failure, each for the uuid and kind of the job that failed.
C6_OneResubmissionPerMismatch ==
    /\ streak.resubmitted = streak.failures
    /\ last.err = "checksum"
          => /\ Enqueues = <<Enqueue(last.job)>>
             /\ last.job = Job(DownloadJobType[ItemKind[streak.item]], streak.item)
             /\ jobs[last.job] >= 1

\* MaxRetry mismatches in a row, each resubmitted.
C6_Witness ==
    /\ streak.failures = MaxRetry
    /\ streak.failures >= 2
    /\ streak.resubmitted = MaxRetry
    /\ last.err = "checksum"

DownloadFailureHandlers ==
    {"on_message_download_failure", "on_reply_download_failure", "on_file_download_failure"}

\* C7: a download failure with integrity mismatch enqueues one resubmission
\* and surfaces nothing; any other failure of a File download surfaces
\* 'download failed, try again' and enqueues nothing; any other failure of a
\* Message or Reply download enqueues nothing and surfaces nothing.
C7_FailurePartition ==
    last.op \in DownloadFailureHandlers
        => IF last.err = "checksum"
           THEN Len(out) = 1 /\ Len(Enqueues) = 1
           ELSE IF last.op = "on_file_download_failure"
           THEN out = <<ErrorStatus(DownloadFailed)>>
           ELSE out = <<>>

\* A File download failed for another reason than an integrity mismatch.
C7_Witness ==
    /\ last.op = "on_file_download_failure"
    /\ last.err = "error"
    /\ out = <<ErrorStatus(DownloadFailed)>>

\* C8: whenever the authenticated flag is false, update_star and
\* delete_source surface 'must sign in' and enqueue no job.
C8_MustSignInWhenFlagFalse ==
    (last.op \in {"update_star", "delete_source"} /\ ~last.auth)
        => out = <<ErrorStatus(MustSignIn)>>

C10_SyncedOnlyAfterMarker ==
    \A i \in Pos(out, Synced) :
        /\ last.op = "on_sync_success"
        /\ \E k \in Pos(out, Ev("sync_flag.write", "")) : k < i

\* A sync success that also found a message to download.
C10_Witness ==
    /\ last.op = "on_sync_success"
    /\ Count(out, Synced) = 1
    /\ Len(Enqueues) >= 1

\* What a handler did of Controller.sync_api: the 'syncing' emission and the
\* MetadataSync job it enqueued.
SyncPart ==
    SelectSeq(out, LAMBDA e : e \in {Ev("sync_events.emit", "syncing"), Enqueue(SyncJob)})

\* The handlers that call sync_api while the flag still has the value it had
\* when they started.
SyncCallers == {"sync_api", "on_authenticate_success", "on_reply_success"}

\* C11: whenever sync is invoked (by the timer, after login, after a reply
\* success) while the authenticated flag is false, no 'syncing' is emitted
\* and no MetadataSync job is enqueued; while the flag is true, 'syncing' is
\* emitted and then exactly one MetadataSync job is enqueued.
C11_SyncGatedByFlag ==
    (last.op \in SyncCallers /\ ~Raised)
        => SyncPart = IF last.auth
                      THEN <<Ev("sync_events.emit", "syncing"), Enqueue(SyncJob)>>
                      ELSE <<>>

ReplyAccepted(r) == Ev("reply_succeeded.emit", r)

\* C12 as claimed: when the SendReply job of reply R reports success,
\* reply-accepted(R) is emitted and then a MetadataSync job is enqueued, in
\* every state in which the success can be delivered.
C12_SyncAfterReplySuccess ==
    last.op = "on_reply_success"
        => /\ Count(out, ReplyAccepted(last.job.uuid)) = 1
           /\ Count(out, Enqueue(SyncJob)) = 1
           /\ Before(out, ReplyAccepted(last.job.uuid), Enqueue(SyncJob))

\* C12 amended: the success of the SendReply job of R emits reply-accepted(R)
\* exactly once; after it, 'syncing' is emitted and one MetadataSync job is
\* enqueued if the API handle holds a token at that moment, and nothing more
\* happens if it does not (after a logout the handle is null).
C12_SyncAfterReplySuccessWithToken ==
    last.op = "on_reply_success"
        => /\ Count(out, ReplyAccepted(last.job.uuid)) = 1
           /\ out[1] = Ev("gui.clear_error_status", "")
           /\ out[2] = ReplyAccepted(last.job.uuid)
           /\ IF authenticated(api, token)
              THEN /\ Len(out) = 4
                   /\ out[3] = Ev("sync_events.emit", "syncing")
                   /\ out[4] = Enqueue(SyncJob)
                   /\ jobs[SyncJob] >= 1
              ELSE Len(out) = 2

\* A reply accepted in a live session: the sync was triggered.
C12_Witness ==
    /\ last.op = "on_reply_success"
    /\ authenticated(api, token)
    /\ Count(out, ReplyAccepted(last.job.uuid)) = 1
    /\ Count(out, Enqueue(SyncJob)) = 1

\* C13: every DraftReply with status PENDING has a SendReply job in flight
\* (enqueued, outcome not delivered yet): no draft is PENDING with no job in
\* flight and no failure recorded on it.
C13_PendingHasJobInFlight ==
    \A r \in ReplyIds : drafts[r] = "PENDING" => jobs[Job("SendReplyJob", r)] > 0

\* C14: whenever a SendReply job for reply R is enqueued, a DraftReply R with
\* status PENDING has already been committed to the local store, authored by
\* the journalist of the current session and positioned at the interaction
\* count of the source; no SendReply job is enqueued without its draft.
C14_DraftCommittedBeforeEnqueue ==
    \A r \in ReplyIds : \A i \in Pos(out, Enqueue(Job("SendReplyJob", r))) :
        /\ last.op = "send_reply"
        /\ drafts[r] = "PENDING"
        /\ token_journalist_uuid(api, token) # "None"
        /\ \E k \in Pos(out, DraftReply(r, token_journalist_uuid(api, token),
                                        interaction_count)) : k < i

LogoutCallbacks == {"on_logout_success", "on_logout_failure"}

\* C15: logout() invoked from any state dispatches one logout call through
\* the bridge and leaves the API handle null, the job queue told to log out
\* and the flag false; the later delivery of the logout call's success or
\* failure changes neither the API handle nor the flag.
C15_LogoutFromAnyState ==
    [][/\ last'.op = "logout"
            => /\ Count(out', Ev("call_api", "logout")) = 1
               /\ Count(out', Ev("api_job_queue.logout", "")) = 1
               /\ api' = None
               /\ queue_api' = None
               /\ ~is_authenticated'
       /\ last'.op \in LogoutCallbacks
            => /\ api' = api
               /\ is_authenticated' = is_authenticated]_vars

LoginError == Ev("gui.show_login_error", "There was a problem signing in.")

\* C16: when an authenticate call fails, whatever the failure was, the API
\* handle is set to null and the one generic credential error is surfaced;
\* the flag keeps its value and no state-change notification is emitted; no
\* job is enqueued and the queue is not handed a handle.
C16_AuthenticateFailure ==
    [][last'.op = "on_authenticate_failure"
          => /\ last'.err \in {"error", "timeout"}
             /\ api' = None
             /\ out' = <<popped, LoginError>>
             /\ is_authenticated' = is_authenticated
             /\ jobs' = jobs
             /\ queue_api' = queue_api]_vars

\* A second login timed out in a session that was authenticated: the handle
\* is gone, the flag is still true.
C16_Witness ==
    /\ last.op = "on_authenticate_failure"
    /\ last.err = "timeout"
    /\ Count(out, LoginError) = 1
    /\ api = None
    /\ is_authenticated

\* C17: entering offline mode sets the flag to false, sweeps every PENDING
\* draft to FAILED and refreshes the displayed source list; it dispatches no
\* call through the bridge, enqueues no job and leaves the registry of
\* in-flight calls as it was.
C17_OfflineModeEntry ==
    [][last'.op = "login_offline_mode"
          => /\ ~is_authenticated'
             /\ \A r \in ReplyIds :
                   drafts'[r] = IF drafts[r] = "PENDING" THEN "FAILED" ELSE drafts[r]
             /\ Count(out', Ev("gui.show_sources", "")) = 1
             /\ \A i \in 1..Len(out') :
                   out'[i].ev \notin {"call_api", "api_job_queue.enqueue"}
             /\ api_threads' = api_threads
             /\ calls' = calls
             /\ next_id' = next_id
             /\ jobs' = jobs]_vars

\* Offline mode entered from a signed-in session with a call in flight and a
\* reply being sent.
C17_Witness ==
    /\ last.op = "login_offline_mode"
    /\ last.auth
    /\ ~is_authenticated
    /\ api_threads # {}
    /\ \E r \in ReplyIds : drafts[r] = "FAILED" /\ jobs[Job("SendReplyJob", r)] > 0

Emitted(id, signal) == \E i \in 1..Len(calls[id].signals) : calls[id].signals[i] = signal

\* C18: a bridged call whose callable raised the timeout error has emitted
\* timed-out and then failed, one that raised another error only failed, one
\* that returned only succeeded, never both succeeded and failed; one
\* continuation is queued for it and, once delivered, exactly one has run:
\* the failure continuation with the error as result, or the success one.
C18_BridgeSignals ==
    /\ \A id \in ApiIds :
          /\ calls[id].st = "finished"
                => /\ calls[id].signals =
                         CASE calls[id].result = "timeout" -> <<"call_timed_out", "call_failed">>
                           [] calls[id].result = "error" -> <<"call_failed">>
                           [] OTHER -> <<"call_succeeded">>
                   /\ ~(Emitted(id, "call_succeeded") /\ Emitted(id, "call_failed"))
                   /\ calls[id].queued = IF calls[id].result = "ok"
                                         THEN <<"call_succeeded">> ELSE <<"call_failed">>
                   /\ calls[id].callbacks = 0
          /\ calls[id].st = "delivered"
                => calls[id].callbacks = 1 /\ calls[id].queued = <<>>
    /\ last.op \in {"on_authenticate_failure", "on_logout_failure"}
          => last.err \in {"timeout", "error"}
    /\ last.op \in {"on_authenticate_success", "on_logout_success"}
          => last.err = "ok"

\* A logout call timed out and its failure continuation has run, while the
\* authenticate call before it has timed out and is not delivered yet.
C18_Witness ==
    /\ last.op = "on_logout_failure"
    /\ last.err = "timeout"
    /\ \E a, b \in ApiIds :
          /\ calls[a].st = "delivered" /\ calls[a].callbacks = 1
          /\ calls[b].st = "finished"
          /\ calls[b].signals = <<"call_timed_out", "call_failed">>

Callbacks ==
    {"on_authenticate_success", "on_authenticate_failure"} \cup LogoutCallbacks

\* C19 as claimed: when the outcome of a bridged call is delivered, the
\* continuation runs to completion while the registry entry is still
\* present; the entry is removed only after the continuation has returned.
C19_PopAfterContinuation ==
    last.op \in Callbacks
        => \A i \in Pos(out, popped) : i = Len(out)

\* C19 amended: when the outcome of a bridged call is delivered, the
\* registry entry of the call is removed first, exactly once, and the
\* continuation runs after it, with the entry already gone.
C19_PopBeforeContinuation ==
    last.op \in Callbacks
        => /\ Count(out, popped) = 1
           /\ out[1] = popped
           /\ api_threads = {id \in ApiIds : calls[id].st \in {"running", "finished"}}

\* An authenticate success delivered: the pop, then the effects of the
\* continuation.
C19_Witness ==
    /\ last.op = "on_authenticate_success"
    /\ out[1] = popped
    /\ Count(out, Ev("gui.hide_login", "")) = 1
    /\ is_authenticated

\* C20: on a queue-paused notification the transient 'server unreachable'
\* status is surfaced exactly when no API handle exists and the persistent
\* retryable one exactly when a handle exists; so a session in which no
\* login has ever completed gets the transient status, and a session that
\* is signed in gets the persistent one.
C20_QueuePausedStatus ==
    last.op = "on_queue_paused"
        => /\ api = None => out = <<ErrorStatus(Unreachable)>>
           /\ api # None => out = <<ErrorStatusRetry(Unreachable)>>
           /\ token = {} => out = <<ErrorStatus(Unreachable)>>
           /\ last.auth => out = <<ErrorStatusRetry(Unreachable)>>

\* Where the stored row with uuid u stands in a list.
Place(l, u) == CHOOSE i \in 1..Len(l) : l[i].uuid = u

\* C21: the list update_sources hands to the display is a permutation of the
\* stored sources in descending order of last_updated: of two adjacent rows
\* the first is not older than the second, and rows with the same time keep
\* the order they had in the store.
C21_SourcesNewestFirstStable ==
    last.op = "update_sources"
        => /\ Len(shown_sources) = Len(local_sources)
           /\ \A i \in 1..Len(local_sources) :
                 \E k \in 1..Len(shown_sources) : shown_sources[k] = local_sources[i]
           /\ \A k \in 1..(Len(shown_sources) - 1) :
                 shown_sources[k].last_updated >= shown_sources[k + 1].last_updated
           /\ \A i, k \in 1..Len(local_sources) :
                 (i < k /\ local_sources[i].last_updated = local_sources[k].last_updated)
                    => Place(shown_sources, local_sources[i].uuid)
                          < Place(shown_sources, local_sources[k].uuid)

\* Three sources displayed, the two older ones with the same time: the
\* newest, stored last, is shown first and the other two in stored order.
C21_Witness ==
    /\ last.op = "update_sources"
    /\ Len(local_sources) = 3
    /\ local_sources[1].last_updated = local_sources[2].last_updated
    /\ local_sources[3].last_updated > local_sources[1].last_updated
    /\ shown_sources = <<local_sources[3], local_sources[1], local_sources[2]>>

\* The steps of on_sync_success that happen once, in the order claimed.
SyncSteps ==
    <<Ev("gui.clear_error_status", ""), Ev("sync_flag.write", ""),
      Ev("storage.update_missing_files", ""), Ev("gui.show_sources", ""),
      Synced, Resume>>

\* C22: a MetadataSync success clears the error status, writes the last-sync
\* marker, updates the missing files, refreshes the source list, enqueues
\* exactly one download job of matching kind and uuid for every message and
\* every reply the store reports as lacking content and none for a file,
\* emits 'synced' and resumes the queue, in this order.
C22_SyncSuccessOrder ==
    last.op = "on_sync_success"
        => /\ \A n \in 1..Len(SyncSteps) : Count(out, SyncSteps[n]) = 1
           /\ \A n \in 1..(Len(SyncSteps) - 1) : Before(out, SyncSteps[n], SyncSteps[n + 1])
           /\ \A i \in Items :
                 Count(out, Enqueue(Job(DownloadJobType[ItemKind[i]], i)))
                    = IF ItemKind[i] = "File" THEN 0
                      ELSE Count(out, found(ItemKind[i], i))
           /\ \A n \in 1..Len(out) :
                 out[n].ev = "api_job_queue.enqueue"
                    => /\ out[n].job \in DownloadJobs
                       /\ \A k \in Pos(out, Ev("gui.show_sources", "")) : k < n
                       /\ \A k \in Pos(out, Synced) : n < k

\* A sync after which the store lacks the content of a message and a reply.
C22_Witness ==
    /\ last.op = "on_sync_success"
    /\ Count(out, found("Message", "M1")) = 1
    /\ Count(out, found("Reply", "R1")) = 1
    /\ Len(Enqueues) = 2
    /\ jobs[Job("MessageDownloadJob", "M1")] >= 1
    /\ jobs[Job("ReplyDownloadJob", "R1")] >= 1

\* C23: when the SendReply job of reply R reports failure, generic or
\* timeout, reply-failed(R) is emitted exactly once and nothing else
\* happens: the stored status of draft R is left as it was, no job is
\* submitted again and no sync is triggered.
C23_ReplyFailureFrame ==
    [][last'.op = "on_reply_failure"
          => /\ last'.err \in {"error", "timeout"}
             /\ out' = <<Ev("reply_failed.emit", last'.job.uuid)>>
             /\ drafts' = drafts
             /\ jobs' = [jobs EXCEPT ![last'.job] = @ - 1]
             /\ is_authenticated' = is_authenticated
             /\ api' = api]_vars

\* A reply timed out: its draft is still PENDING and nothing is in flight.
C23_Witness ==
    /\ last.op = "on_reply_failure"
    /\ last.err = "timeout"
    /\ drafts[last.job.uuid] = "PENDING"
    /\ QueueLen(jobs) = 0

\* C24: under every interleaving of login, logout and the delivery of
\* authenticate outcomes, when an authenticate success is handled the
\* current API handle is not null and is the one built by the login that
\* dispatched the call, so the job queue is given a handle with a token.
C24_SuccessHandledOnItsOwnHandle ==
    last.op = "on_authenticate_success"
        => /\ ~Raised
           /\ api # None
           /\ api_call("authenticate", api) = last.job
           /\ queue_api = api
           /\ queue_api \in token

\* C25: at any time at most one download job per item (uuid and kind) has
\* been enqueued without its outcome having been delivered, across repeated
\* sync successes, downloads the user asks for and resubmissions after an
\* integrity mismatch.
C25_OneDownloadJobPerItem == \A j \in DownloadJobs : jobs[j] <= 1

\* C26: no handler enqueues a job while the API handle is null, be it an
\* operation of the user or a submission made by a handler (sync, the
\* resubmission of a download after an integrity mismatch).
C26_NoEnqueueWithoutHandle == api = None => Enqueues = <<>>

\* C27: when authentication-state-changed(v) is emitted, the flag an
\* observer reads already equals v: the new value is stored before the
\* notification goes out.
C27_FlagStoredBeforeSignal ==
    \A v \in BOOLEAN : \A i \in Pos(out, AuthChanged(v)) :
        \E k \in Pos(out, assigned(v)) : k < i

====
